---- MODULE Spec2Model ----
(***************************************************************************)
(* resume-markdown (src/src/resume_markdown/__main__.py): the browser      *)
(* locator, title extraction, the Markdown compiler, `init`, `build` and   *)
(* the browser-backed PDF renderer, as state machines.                     *)
(*                                                                         *)
(* Four specifications share the module's variables:                       *)
(*   SpecLocator  guess_browser_path over a filesystem snapshot            *)
(*   SpecTitle    title() over bounded Markdown texts                      *)
(*   SpecInit     repeated runs of `prog init [directory]`                 *)
(*   SpecBuild    one run of `prog build ...`                              *)
(* The variables a specification does not use stay at their idle values.   *)
(***************************************************************************)
EXTENDS Integers, Sequences, FiniteSets, TLC

VARIABLES
    \* --- SpecLocator
    platform,     \* sys.platform / is_wsl(): "darwin", "win32", "wsl", "linux"
    disk,         \* the set of paths for which os.path.exists is true
    winEnvSet,    \* whether %ProgramFiles(x86)%, %ProgramFiles%, %LocalAppData% are defined
    usersListing, \* the order in which /mnt/c/Users is listed (glob.glob's order)
    locResult,    \* what guess_browser_path produced
    \* --- SpecTitle
    mdText,       \* the Markdown text, a sequence of characters
    titleResult,  \* what title(md) produced
    \* --- SpecInit
    files,        \* <<directory, filename>> -> content, or NoFile
    initArgv,     \* the directory given after `init` on the command line, or NoArg
    initRuns,     \* how many `init` runs have finished
    firstRun,     \* the files as they were after the first run of init_resume, or NoRunYet
    filesBefore,  \* the files as they were before the last run
    initStatus,   \* the exit status of the last run
    lastWritten,  \* the paths the last run wrote
    \* --- SpecBuild
    pc,           \* the position of main()/write_pdf()
    args,         \* the parsed command line of `build`
    inputExists,  \* whether args.file can be opened
    cssExists,    \* whether <prefix>.css exists
    html,         \* the compiled document, or NoHtml
    written,      \* the paths written by the front end itself
    renderer,     \* the PDF renderer invoked: "none", "browser", "weasy"
    locatorCalls, \* how many times guess_browser_path was called
    chrome,       \* the executable write_pdf resolved
    tmpdir,       \* the scoped temp workspace: "none", "exists", "removed", "undeletable"
    proc,         \* the browser subprocess: "none", "running", "exited", "nolaunch"
    returncode,   \* the subprocess' exit code
    pdfOutcome,   \* write_pdf: "none", "returned", "raised"
    exitStatus,   \* the process' exit status, or Running
    error,        \* the exception in flight or that ended the run, or NoError
    log           \* the diagnostics emitted, in order

locVars   == <<platform, disk, winEnvSet, usersListing, locResult>>
titleVars == <<mdText, titleResult>>
initVars  == <<files, initArgv, initRuns, firstRun, filesBefore, initStatus, lastWritten>>
buildVars == <<pc, args, inputExists, cssExists, html, written, renderer, locatorCalls, chrome,
               tmpdir, proc, returncode, pdfOutcome, exitStatus, error, log>>
vars      == <<locVars, titleVars, initVars, buildVars>>

(***************************************************************************)
(* Bounds                                                                  *)
(***************************************************************************)
MaxExisting == 2   \* at most this many paths exist in a filesystem snapshot
MaxLen      == 5   \* the longest Markdown text of SpecTitle, in characters
MaxRuns     == 3   \* the number of `init` runs in a behaviour

(***************************************************************************)
(* Sequence helpers                                                        *)
(***************************************************************************)
RECURSIVE Product(_, _, _, _)
\* itertools.product(paths, executables) joined by "/": path-major order
Product(paths, execs, i, j) ==
    IF i > Len(paths) THEN <<>>
    ELSE IF j > Len(execs) THEN Product(paths, execs, i + 1, 1)
    ELSE <<paths[i] \o "/" \o execs[j]>> \o Product(paths, execs, i, j + 1)

Range(s) == {s[i] : i \in 1..Len(s)}

RECURSIVE SubsetsUpTo(_, _)
SubsetsUpTo(S, k) ==
    IF k = 0 THEN {{}}
    ELSE LET prev == SubsetsUpTo(S, k - 1)
         IN  prev \cup {s \cup {x} : s \in prev, x \in S}

(***************************************************************************)
(* The candidate tables                                                    *)
(***************************************************************************)
CHROME_GUESSES_MACOS ==
    << "/Applications/Chromium.app/Contents/MacOS/Chromium",
       "/Applications/Google Chrome Canary.app/Contents/MacOS/Google Chrome Canary",
       "/Applications/Google Chrome.app/Contents/MacOS/Google Chrome" >>

EDGE_GUESSES_MACOS ==
    << "/Applications/Microsoft Edge.app/Contents/MacOS/Microsoft Edge" >>

\* os.path.expandvars (ntpath): %name% is replaced when name is defined in the
\* environment and left as written when it is not.
expandvars(name, value, rest, isSet) ==
    IF isSet THEN value \o rest ELSE "%" \o name \o "%" \o rest

CHROME_GUESSES_WINDOWS(envSet) ==
    << expandvars("ProgramFiles(x86)", "C:\\Program Files (x86)",
                  "\\Google\\Chrome\\Application\\chrome.exe", envSet),
       expandvars("ProgramFiles", "C:\\Program Files",
                  "\\Google\\Chrome\\Application\\chrome.exe", envSet),
       expandvars("LocalAppData", "C:\\Users\\alice\\AppData\\Local",
                  "\\Google\\Chrome\\Application\\chrome.exe", envSet),
       "C:\\Program Files (x86)\\Google\\Chrome\\Application\\chrome.exe",
       "C:\\Program Files\\Google\\Chrome\\Application\\chrome.exe",
       "C:\\Users\\UserName\\AppDataLocal\\Google\\Chrome",
       "C:\\Documents and Settings\\UserName\\Local Settings\\Application Data\\Google\\Chrome" >>

\* "Program Files (x86)" and "Program Files" name no environment variable of a
\* Windows host, so the first two stay as written.
EDGE_GUESSES_WINDOWS(envSet) ==
    << expandvars("Program Files (x86)", "", "\\Microsoft\\Edge\\Application\\msedge.exe", FALSE),
       expandvars("Program Files", "", "\\Microsoft\\Edge\\Application\\msedge.exe", FALSE),
       expandvars("LocalAppData", "C:\\Users\\alice\\AppData\\Local",
                  "\\Microsoft\\Edge\\Application\\msedge.exe", envSet) >>

LinuxBinDirs ==
    << "/usr/local/sbin", "/usr/local/bin", "/usr/sbin", "/usr/bin", "/sbin", "/bin" >>

CHROME_GUESSES_LINUX ==
    Product(LinuxBinDirs \o << "/opt/google/chrome" >>,
            << "google-chrome", "chrome", "chromium", "chromium-browser" >>, 1, 1)

EDGE_GUESSES_LINUX == Product(LinuxBinDirs, << "microsoft-edge", "edge" >>, 1, 1)

BRAVE_GUESSES_LINUX == Product(LinuxBinDirs, << "brave-browser", "brave" >>, 1, 1)

\* A WSL guess is a record: a plain path, or a pattern with one "*" segment
\* (head * tail).
Plain(p)      == [wild |-> FALSE, head |-> p, tail |-> ""]
Wild(h, t)    == [wild |-> TRUE, head |-> h, tail |-> t]

EDGE_GUESSES_WSL ==
    << Plain("/mnt/c/Program Files (x86)/Microsoft/Edge/Application/msedge.exe"),
       Plain("/mnt/c/Program Files/Microsoft/Edge/Application/msedge.exe"),
       Wild("/mnt/c/Users/", "/AppData/Local/Microsoft/Edge/Application/msedge.exe") >>

CHROME_GUESSES_WSL ==
    << Plain("/mnt/c/Program Files (x86)/Google/Chrome/Application/chrome.exe"),
       Plain("/mnt/c/Program Files/Google/Chrome/Application/chrome.exe"),
       Wild("/mnt/c/Users/", "/AppData/Local/Google/Chrome/Application/chrome.exe") >>

\* The user profiles a /mnt/c/Users directory may hold.
Users == {"alice", "bob"}

Platforms == {"darwin", "win32", "wsl", "linux"}

(***************************************************************************)
(* expand_wsl_paths and guess_browser_path                                 *)
(***************************************************************************)
RECURSIVE glob(_, _, _, _)
\* glob.glob(head*tail): the existing paths that match, in listing order
glob(pattern, listing, exists, i) ==
    IF i > Len(listing) THEN <<>>
    ELSE LET p == pattern.head \o listing[i] \o pattern.tail
         IN  (IF p \in exists THEN <<p>> ELSE <<>>)
             \o glob(pattern, listing, exists, i + 1)

RECURSIVE expand_wsl_paths(_, _, _, _)
expand_wsl_paths(paths, listing, exists, i) ==
    IF i > Len(paths) THEN <<>>
    ELSE (IF paths[i].wild THEN glob(paths[i], listing, exists, 1)
                           ELSE <<paths[i].head>>)
         \o expand_wsl_paths(paths, listing, exists, i + 1)

\* The list `guesses` of guess_browser_path, by platform branch.
Guesses(plat, envSet, listing, exists) ==
    CASE plat = "darwin" -> EDGE_GUESSES_MACOS \o CHROME_GUESSES_MACOS
      [] plat = "win32"  -> EDGE_GUESSES_WINDOWS(envSet) \o CHROME_GUESSES_WINDOWS(envSet)
      [] plat = "wsl"    -> BRAVE_GUESSES_LINUX \o EDGE_GUESSES_LINUX \o CHROME_GUESSES_LINUX
                            \o expand_wsl_paths(EDGE_GUESSES_WSL, listing, exists, 1)
                            \o expand_wsl_paths(CHROME_GUESSES_WSL, listing, exists, 1)
      [] OTHER           -> EDGE_GUESSES_LINUX \o CHROME_GUESSES_LINUX

Found(p)  == [status |-> "found", path |-> p]
NoBrowser == [status |-> "ValueError", path |-> ""]
NotRun    == [status |-> "notrun", path |-> ""]

RECURSIVE LastExisting(_, _, _)
\* the scan run from the end of the list: the last existing guess wins
LastExisting(guesses, exists, i) ==
    IF i < 1 THEN NoBrowser
    ELSE IF guesses[i] \in exists THEN Found(guesses[i])
    ELSE LastExisting(guesses, exists, i - 1)

ScanFromEnd(guesses, exists) == LastExisting(guesses, exists, Len(guesses))

RECURSIVE FirstExisting(_, _, _)
\* for guess in guesses: if os.path.exists(guess): return guess; raise ValueError
FirstExisting(guesses, exists, i) ==
    IF i > Len(guesses) THEN NoBrowser
    ELSE IF guesses[i] \in exists THEN Found(guesses[i])
    ELSE FirstExisting(guesses, exists, i + 1)

Scan(guesses, exists) == FirstExisting(guesses, exists, 1)

guess_browser_path(plat, envSet, listing, exists) ==
    Scan(Guesses(plat, envSet, listing, exists), exists)

(***************************************************************************)
(* title(md)                                                               *)
(***************************************************************************)
\* The characters of a Markdown text: the heading mark, a blank, a line
\* break and a letter.
Chars == {"#", " ", "\n", "T"}

Whitespace == {" ", "\n"}

RECURSIVE SeqsUpTo(_, _)
SeqsUpTo(S, n) ==
    IF n = 0 THEN {<<>>}
    ELSE LET shorter == SeqsUpTo(S, n - 1)
         IN  shorter \cup {Append(s, c) : s \in {t \in shorter : Len(t) = n - 1}, c \in S}

RECURSIVE SplitFrom(_, _, _)
\* str.splitlines(): the lines without their line breaks; a trailing line
\* break opens no further line
SplitFrom(md, i, cur) ==
    IF i > Len(md) THEN (IF cur = <<>> THEN <<>> ELSE <<cur>>)
    ELSE IF md[i] = "\n" THEN <<cur>> \o SplitFrom(md, i + 1, <<>>)
    ELSE SplitFrom(md, i + 1, Append(cur, md[i]))

splitlines(md) == SplitFrom(md, 1, <<>>)

\* re.match("^#[^#]", line)
IsH1(line) == Len(line) >= 2 /\ line[1] = "#" /\ line[2] # "#"

RECURSIVE lstrip(_, _)
\* str.lstrip(chars)
lstrip(s, chars) ==
    IF s # <<>> /\ s[1] \in chars THEN lstrip(Tail(s), chars) ELSE s

RECURSIVE rstrip(_, _)
rstrip(s, chars) ==
    IF s # <<>> /\ s[Len(s)] \in chars THEN rstrip(SubSeq(s, 1, Len(s) - 1), chars) ELSE s

\* str.strip()
strip(s) == rstrip(lstrip(s, Whitespace), Whitespace)

TitleOk(t)   == [status |-> "ok", text |-> t]
TitleError   == [status |-> "ValueError", text |-> <<>>]
TitleNotRun  == [status |-> "notrun", text |-> <<>>]

\* the scan that looks at the first line only
FirstLineOnly(lines, i) ==
    IF lines # <<>> /\ IsH1(lines[1])
    THEN TitleOk(strip(lstrip(lines[1], {"#"})))
    ELSE TitleError

RECURSIVE TitleScan(_, _)
\* for line in md.splitlines(): if re.match(...): return line.lstrip("#").strip()
\* raise ValueError
TitleScan(lines, i) ==
    IF i > Len(lines) THEN TitleError
    ELSE IF IsH1(lines[i]) THEN TitleOk(strip(lstrip(lines[i], {"#"})))
    ELSE TitleScan(lines, i + 1)

title(md) == TitleScan(splitlines(md), 1)

(***************************************************************************)
(* init_resume and the `init` subcommand                                   *)
(***************************************************************************)
NoFile   == "<absent>"
NoArg    == "<none>"
NoRunYet == [ran |-> FALSE]

\* The exit statuses of the process: 0, 1 (an uncaught exception) and 2
\* (argparse's usage error).
ExitOk    == "exit 0"
ExitError == "exit 1"
ExitUsage == "exit 2"

TemplateNames == << "resume.md", "resume.css" >>

\* The directories of the model: the working directory and one other.
Dirs == {".", "cv"}

FilePaths == Dirs \X Range(TemplateNames)

\* (package_files / filename).read_text()
Template(filename) == "template of " \o filename

\* What a file may hold before the first run: nothing, the user's own text,
\* or an earlier copy of the template.
ContentsOf(path) == {NoFile, "user text", Template(path[2])}

\* one round of the loop with the existence test left out
InitFileOverwrite(st, directory, filename) ==
    LET dest_path == <<directory, filename>>
    IN  [files   |-> [st.files EXCEPT ![dest_path] = Template(filename)],
         written |-> st.written \cup {dest_path},
         skipped |-> st.skipped]

\* One round of `for filename in ["resume.md", "resume.css"]`.
InitFile(st, directory, filename) ==
    LET dest_path == <<directory, filename>>
    IN  IF st.files[dest_path] # NoFile
        THEN [st EXCEPT !.skipped = st.skipped \cup {dest_path}]
        ELSE [files   |-> [st.files EXCEPT ![dest_path] = Template(filename)],
              written |-> st.written \cup {dest_path},
              skipped |-> st.skipped]

init_resume(fs, directory) ==
    LET st0 == [files |-> fs, written |-> {}, skipped |-> {}]
        st1 == InitFile(st0, directory, TemplateNames[1])
    IN  InitFile(st1, directory, TemplateNames[2])

\* main() for `prog init [directory]`: the init subparser declares no
\* argument, so a directory on the command line ends parse_args with
\* "unrecognized arguments" (exit status 2); otherwise init_resume() runs with
\* its default directory.
MainInit(fs, dirArg) ==
    IF dirArg # NoArg
    THEN [files |-> fs, written |-> {}, skipped |-> {}, status |-> ExitUsage]
    ELSE LET r == init_resume(fs, ".")
         IN  [files |-> r.files, written |-> r.written, skipped |-> r.skipped,
              status |-> ExitOk]

(***************************************************************************)
(* Paths of `build`: os.path.abspath and os.path.splitext, over sequences  *)
(* of characters                                                           *)
(***************************************************************************)
\* os.getcwd()
Cwd == << "/", "w" >>

RECURSIVE SplitOn(_, _, _, _)
\* str.split(sep): every component, the empty ones included
SplitOn(p, sep, i, cur) ==
    IF i > Len(p) THEN <<cur>>
    ELSE IF p[i] = sep THEN <<cur>> \o SplitOn(p, sep, i + 1, <<>>)
    ELSE SplitOn(p, sep, i + 1, Append(cur, p[i]))

RECURSIVE JoinWith(_, _)
\* sep.join(comps) for sep = "/"
JoinWith(comps, i) ==
    IF i > Len(comps) THEN <<>>
    ELSE (IF i > 1 THEN << "/" >> ELSE <<>>) \o comps[i] \o JoinWith(comps, i + 1)

DotDot == << ".", "." >>

RECURSIVE NormComps(_, _, _, _)
\* the loop of posixpath.normpath over the components
NormComps(comps, i, new_comps, initial_slashes) ==
    IF i > Len(comps) THEN new_comps
    ELSE LET comp == comps[i]
         IN  IF comp = <<>> \/ comp = << "." >>
             THEN NormComps(comps, i + 1, new_comps, initial_slashes)
             ELSE IF comp # DotDot
                     \/ (initial_slashes = 0 /\ new_comps = <<>>)
                     \/ (new_comps # <<>> /\ new_comps[Len(new_comps)] = DotDot)
             THEN NormComps(comps, i + 1, Append(new_comps, comp), initial_slashes)
             ELSE IF new_comps # <<>>
             THEN NormComps(comps, i + 1, SubSeq(new_comps, 1, Len(new_comps) - 1),
                            initial_slashes)
             ELSE NormComps(comps, i + 1, new_comps, initial_slashes)

StartsWith(p, q) == Len(p) >= Len(q) /\ SubSeq(p, 1, Len(q)) = q

\* posixpath.normpath
normpath(path) ==
    IF path = <<>> THEN << "." >>
    ELSE LET initial_slashes ==
                 IF ~StartsWith(path, << "/" >>) THEN 0
                 ELSE IF StartsWith(path, << "/", "/" >>)
                         /\ ~StartsWith(path, << "/", "/", "/" >>) THEN 2
                 ELSE 1
             comps  == NormComps(SplitOn(path, "/", 1, <<>>), 1, <<>>, initial_slashes)
             joined == [k \in 1..initial_slashes |-> "/"] \o JoinWith(comps, 1)
         IN  IF joined = <<>> THEN << "." >> ELSE joined

\* posixpath.join(a, b)
pathjoin(a, b) ==
    IF StartsWith(b, << "/" >>) THEN b
    ELSE IF a = <<>> \/ a[Len(a)] = "/" THEN a \o b
    ELSE a \o << "/" >> \o b

\* os.path.abspath
abspath(path) ==
    normpath(IF StartsWith(path, << "/" >>) THEN path ELSE pathjoin(Cwd, path))

\* str.rfind(c): the last index of c in p, 0 when there is none
rfind(p, c) ==
    LET hits == {i \in 1..Len(p) : p[i] = c}
    IN  IF hits = {} THEN 0 ELSE CHOOSE i \in hits : \A j \in hits : j <= i

\* os.path.splitext (genericpath._splitext): split at the last dot of the last
\* component, unless only dots precede it there
splitext(p) ==
    LET sepIndex == rfind(p, "/")
        dotIndex == rfind(p, ".")
    IN  IF dotIndex > sepIndex
           /\ \E k \in (sepIndex + 1)..(dotIndex - 1) : p[k] # "."
        THEN <<SubSeq(p, 1, dotIndex - 1), SubSeq(p, dotIndex, Len(p))>>
        ELSE <<p, <<>>>>

\* prefix, _ = os.path.splitext(os.path.abspath(args.file))
Prefix(file) == splitext(abspath(file))[1]

DotHtml == << ".", "h", "t", "m", "l" >>

\* The file arguments of `build` the model runs: a plain name, a name in a
\* subdirectory, an absolute path, names with no, a leading and two dots, and
\* paths that abspath has to normalise.
SampleFiles ==
    { << "r", ".", "m", "d" >>,
      << "a", "/", "r", ".", "m", "d" >>,
      << "/", "w", "/", "r", ".", "m", "d" >>,
      << "r" >>,
      << ".", "r" >>,
      << "r", ".", "x", ".", "m", "d" >>,
      << ".", "/", "r", ".", "m", "d" >>,
      << ".", ".", "/", "a", ".", "b", "/", "r" >> }

(***************************************************************************)
(* make_html, the exit-code policy and the pieces of write_pdf             *)
(***************************************************************************)
NoHtml  == [status |-> "none"]
NoError == "<no error>"
NoPath  == "<None>"
Running == "<running>"

\* the compiler that falls back to an empty title instead of raising
make_html_lenient(md, cssThere) ==
    LET css == IF cssThere THEN "css text" ELSE ""
        t   == title(md)
    IN  [status |-> "ok", title |-> t.text, css |-> css, body |-> md]

\* the compiler that lets the failed open of <prefix>.css escape
make_html_strict(md, cssThere) ==
    LET t == title(md)
    IN  IF ~cssThere THEN [status |-> "FileNotFoundError"]
        ELSE IF t.status = "ok"
        THEN [status |-> "ok", title |-> t.text, css |-> "css text", body |-> md]
        ELSE [status |-> "ValueError"]

\* make_html: css is the stylesheet's text, or "" when <prefix>.css is not
\* found; title(md) raises ValueError through make_html; the body is
\* markdown.markdown(md), kept as the text it is compiled from.
make_html(md, cssThere) ==
    LET css == IF cssThere THEN "css text" ELSE ""
        t   == title(md)
    IN  IF t.status = "ok"
        THEN [status |-> "ok", title |-> t.text, css |-> css, body |-> md]
        ELSE [status |-> "ValueError"]

\* exc.returncode == -6
BenignAbort == -6

\* The exit codes the browser subprocess ends with in the model: success, the
\* benign abort, another signal, and two ordinary failures.
ExitCodes == {0, BenignAbort, -9, 1, 6}

\* the policy that forgives every death by signal
ExitPolicyAnySignal(rc) ==
    IF rc = 0 THEN "ok" ELSE IF rc < 0 THEN "warn" ELSE "raise"

\* subprocess.run(check=True) and the except clause: what a return code leads to
ExitPolicy(rc) ==
    IF rc = 0 THEN "ok" ELSE IF rc = BenignAbort THEN "warn" ELSE "raise"

\* the locator consulted whatever path was given
AlwaysLocate(chrome_path) == TRUE

\* chrome = chrome or guess_browser_path(): the locator runs when the given
\* path is falsy (None or the empty string)
NeedsLocator(chrome_path) == chrome_path \in {NoPath, ""}

\* the removal placed after the try statement instead of in its finally clause
CleanupOnSuccessOnly(pending) == pending = NoError

\* finally: the removal runs whether or not an exception is in flight
CleanupRuns(pending) == TRUE

\* the front end that writes the .html whatever --no-html says
AlwaysWriteHtml(a) == TRUE

\* if not args.no_html
WritesHtml(a) == ~a.no_html

Titled     == << "#", " ", "T", "\n", "T" >>
LateTitle  == << "T", "\n", "#", " ", "T" >>
Untitled   == << "T", "\n", "#", "#", " ", "T" >>
EmptyDoc   == << >>
Docs       == {Titled, LateTitle, Untitled, EmptyDoc}

ChromePaths == {NoPath, "", "/opt/chrome"}

\* The hosts `build` runs on in the model: no browser, a Chromium on Linux, an
\* Edge in a Windows profile seen from WSL, a Chrome on macOS.
BuildHosts ==
    { [platform |-> "linux", disk |-> {}, listing |-> <<>>],
      [platform |-> "linux", disk |-> {"/usr/bin/chromium"}, listing |-> <<>>],
      [platform |-> "wsl",
       disk |-> {"/mnt/c/Users/alice/AppData/Local/Microsoft/Edge/Application/msedge.exe"},
       listing |-> <<"bob", "alice">>],
      [platform |-> "darwin",
       disk |-> {"/Applications/Google Chrome.app/Contents/MacOS/Google Chrome"},
       listing |-> <<>>] }

(***************************************************************************)
(* Idle values of each group of variables                                  *)
(***************************************************************************)
LocIdle ==
    /\ platform = "linux" /\ disk = {} /\ winEnvSet = FALSE
    /\ usersListing = <<>> /\ locResult = NotRun

TitleIdle == mdText = <<>> /\ titleResult = TitleNotRun

InitIdle ==
    /\ files = [f \in FilePaths |-> NoFile] /\ initArgv = NoArg /\ initRuns = 0
    /\ firstRun = NoRunYet
    /\ filesBefore = [f \in FilePaths |-> NoFile]
    /\ initStatus = Running /\ lastWritten = {}

BuildIdle ==
    /\ pc = "idle"
    /\ args = [file |-> <<>>, no_html |-> FALSE, no_pdf |-> FALSE, weasy |-> FALSE,
               chrome_path |-> NoPath]
    /\ inputExists = FALSE /\ cssExists = FALSE /\ html = NoHtml /\ written = {}
    /\ renderer = "none" /\ locatorCalls = 0 /\ chrome = NoPath /\ tmpdir = "none"
    /\ proc = "none" /\ returncode = 0 /\ pdfOutcome = "none"
    /\ exitStatus = Running /\ error = NoError /\ log = <<>>

(***************************************************************************)
(* SpecLocator                                                             *)
(***************************************************************************)
UsersListings == {<<u, v>> : u, v \in Users} \ {<<u, u>> : u \in Users}

\* Every path a platform's scan can test, and one path that is no candidate.
Universe(plat, envSet) ==
    LET wslPaths == {g.head : g \in {x \in Range(EDGE_GUESSES_WSL \o CHROME_GUESSES_WSL) : ~x.wild}}
                    \cup {g.head \o u \o g.tail :
                            g \in {x \in Range(EDGE_GUESSES_WSL \o CHROME_GUESSES_WSL) : x.wild},
                            u \in Users}
    IN  (IF plat = "wsl"
         THEN Range(BRAVE_GUESSES_LINUX \o EDGE_GUESSES_LINUX \o CHROME_GUESSES_LINUX)
              \cup wslPaths
         ELSE Range(Guesses(plat, envSet, <<>>, {})))
        \cup {"/usr/bin/firefox"}

LocatorInit ==
    /\ platform \in Platforms
    /\ winEnvSet \in (IF platform = "win32" THEN BOOLEAN ELSE {FALSE})
    /\ usersListing \in (IF platform = "wsl" THEN UsersListings ELSE {<<>>})
    /\ disk \in SubsetsUpTo(Universe(platform, winEnvSet), MaxExisting)
    /\ locResult = NotRun
    /\ TitleIdle /\ InitIdle /\ BuildIdle

Locate ==
    /\ locResult = NotRun
    /\ locResult' = guess_browser_path(platform, winEnvSet, usersListing, disk)
    /\ UNCHANGED <<platform, disk, winEnvSet, usersListing, titleVars, initVars, buildVars>>

LocatorNext == Locate

SpecLocator == LocatorInit /\ [][LocatorNext]_vars

(***************************************************************************)
(* SpecTitle                                                               *)
(***************************************************************************)
TitleInit ==
    /\ mdText \in SeqsUpTo(Chars, MaxLen)
    /\ titleResult = TitleNotRun
    /\ LocIdle /\ InitIdle /\ BuildIdle

ExtractTitle ==
    /\ titleResult = TitleNotRun
    /\ titleResult' = title(mdText)
    /\ UNCHANGED <<mdText, locVars, initVars, buildVars>>

TitleNext == ExtractTitle

SpecTitle == TitleInit /\ [][TitleNext]_vars

(***************************************************************************)
(* SpecInit                                                                *)
(***************************************************************************)
InitInit ==
    /\ files \in {f \in [FilePaths -> {NoFile, "user text"} \cup {Template(n) : n \in Range(TemplateNames)}] :
                    \A q \in FilePaths : f[q] \in ContentsOf(q)}
    /\ initArgv = NoArg /\ initRuns = 0
    /\ firstRun = NoRunYet /\ filesBefore = files
    /\ initStatus = Running /\ lastWritten = {}
    /\ LocIdle /\ TitleIdle /\ BuildIdle

\* One run of `prog init [directory]`.
InitRun ==
    /\ initRuns < MaxRuns
    /\ \E d \in {NoArg} \cup Dirs :
         LET r == MainInit(files, d)
         IN  /\ initArgv' = d
             /\ files' = r.files
             /\ lastWritten' = r.written
             /\ initStatus' = r.status
    /\ filesBefore' = files
    /\ firstRun' = IF ~firstRun.ran /\ initStatus' = ExitOk
                   THEN [ran |-> TRUE, files |-> files'] ELSE firstRun
    /\ initRuns' = initRuns + 1
    /\ UNCHANGED <<locVars, titleVars, buildVars>>

InitNext == InitRun

SpecInit == InitInit /\ [][InitNext]_vars

(***************************************************************************)
(* SpecBuild: one run of `prog build [file] [--no-html] [--no-pdf]         *)
(* [--chrome-path PATH] [--weasy]`                                         *)
(***************************************************************************)
BuildInit ==
    /\ pc = "main"
    /\ args \in [file : SampleFiles, no_html : BOOLEAN, no_pdf : BOOLEAN,
                 weasy : BOOLEAN, chrome_path : ChromePaths]
    /\ inputExists \in BOOLEAN
    /\ mdText \in Docs
    /\ cssExists \in BOOLEAN
    /\ \E h \in BuildHosts :
         /\ platform = h.platform /\ disk = h.disk /\ usersListing = h.listing
    /\ winEnvSet = FALSE /\ locResult = NotRun
    /\ titleResult = TitleNotRun
    /\ html = NoHtml /\ written = {}
    /\ renderer = "none" /\ locatorCalls = 0 /\ chrome = NoPath /\ tmpdir = "none"
    /\ proc = "none" /\ returncode = 0 /\ pdfOutcome = "none"
    /\ exitStatus = Running /\ error = NoError /\ log = <<>>
    /\ InitIdle

hostVars == <<platform, disk, winEnvSet, usersListing>>

\* An uncaught exception ends main(): the interpreter exits with status 1.
Die(exc) == pc' = "done" /\ error' = exc /\ exitStatus' = ExitError

\* main(), lines 361-365: the prefix, the read of the input and make_html.
Compile ==
    /\ pc = "main"
    /\ IF ~inputExists
       THEN /\ Die("FileNotFoundError")
            /\ UNCHANGED <<html, log, titleResult>>
       ELSE LET doc == make_html(mdText, cssExists)
            IN  /\ log' = IF cssExists THEN log
                          ELSE Append(log, "print: css not found")
                /\ titleResult' = title(mdText)
                /\ IF doc.status = "ok"
                   THEN /\ html' = doc
                        /\ pc' = "html"
                        /\ UNCHANGED <<error, exitStatus>>
                   ELSE /\ Die(doc.status)
                        /\ UNCHANGED html
    /\ UNCHANGED <<args, inputExists, mdText, cssExists, written, renderer, locatorCalls,
                   chrome, tmpdir, proc, returncode, pdfOutcome, hostVars, locResult,
                   initVars>>

\* main(), lines 367-370.
HtmlStep ==
    /\ pc = "html"
    /\ IF WritesHtml(args)
       THEN /\ written' = written \cup {Prefix(args.file) \o DotHtml}
            /\ log' = Append(log, "info: Wrote html")
       ELSE UNCHANGED <<written, log>>
    /\ pc' = "pdf"
    /\ UNCHANGED <<args, inputExists, mdText, cssExists, html, renderer, locatorCalls,
                   chrome, tmpdir, proc, returncode, pdfOutcome, exitStatus, error,
                   hostVars, locResult, titleResult, initVars>>

\* main(), line 372 with --no-pdf: nothing more to do.
SkipPdf ==
    /\ pc = "pdf" /\ args.no_pdf
    /\ pc' = "done" /\ exitStatus' = ExitOk
    /\ UNCHANGED <<args, inputExists, mdText, cssExists, html, written, renderer,
                   locatorCalls, chrome, tmpdir, proc, returncode, pdfOutcome, error, log,
                   hostVars, locResult, titleResult, initVars>>

\* main(), lines 373-374: write_pdf_weasy, which raises RuntimeError when
\* WeasyPrint cannot be imported.
WeasyPdf ==
    /\ pc = "pdf" /\ ~args.no_pdf /\ args.weasy
    /\ renderer' = "weasy"
    /\ \E importable \in BOOLEAN :
         IF importable
         THEN /\ pc' = "done" /\ exitStatus' = ExitOk
              /\ log' = Append(log, "info: Wrote pdf")
              /\ UNCHANGED error
         ELSE /\ Die("RuntimeError")
              /\ UNCHANGED log
    /\ UNCHANGED <<args, inputExists, mdText, cssExists, html, written, locatorCalls,
                   chrome, tmpdir, proc, returncode, pdfOutcome, hostVars, locResult,
                   titleResult, initVars>>

\* main(), lines 375-376, and write_pdf, line 227: the browser path.
ResolveBrowser ==
    /\ pc = "pdf" /\ ~args.no_pdf /\ ~args.weasy
    /\ renderer' = "browser"
    /\ IF NeedsLocator(args.chrome_path)
       THEN LET r == guess_browser_path(platform, winEnvSet, usersListing, disk)
            IN  /\ locatorCalls' = locatorCalls + 1
                /\ locResult' = r
                /\ IF r.status = "found"
                   THEN /\ chrome' = r.path
                        /\ log' = Append(log, "info: Found browser")
                        /\ pc' = "mkdtemp"
                        /\ UNCHANGED <<pdfOutcome, exitStatus, error>>
                   ELSE /\ Die("ValueError: no browser")
                        /\ pdfOutcome' = "raised"
                        /\ UNCHANGED <<chrome, log>>
       ELSE /\ chrome' = args.chrome_path
            /\ pc' = "mkdtemp"
            /\ UNCHANGED <<locatorCalls, locResult, log, pdfOutcome, exitStatus, error>>
    /\ UNCHANGED <<args, inputExists, mdText, cssExists, html, written, tmpdir, proc,
                   returncode, hostVars, titleResult, initVars>>

\* write_pdf, lines 251-257.
Mkdtemp ==
    /\ pc = "mkdtemp"
    /\ tmpdir' = "exists"
    /\ pc' = "run"
    /\ UNCHANGED <<args, inputExists, mdText, cssExists, html, written, renderer,
                   locatorCalls, chrome, proc, returncode, pdfOutcome, exitStatus, error,
                   log, hostVars, locResult, titleResult, initVars>>

\* write_pdf, line 260: subprocess.run starts the browser, or fails to (the
\* executable is missing or may not be executed) with an OSError that no
\* except clause catches.
Launch ==
    /\ pc = "run"
    /\ \E launched \in BOOLEAN :
         IF launched
         THEN /\ proc' = "running" /\ pc' = "wait"
              /\ UNCHANGED error
         ELSE /\ proc' = "nolaunch" /\ pc' = "finally"
              /\ error' = "OSError"
    /\ UNCHANGED <<args, inputExists, mdText, cssExists, html, written, renderer,
                   locatorCalls, chrome, tmpdir, returncode, pdfOutcome, exitStatus, log,
                   hostVars, locResult, titleResult, initVars>>

\* The browser subprocess ends with some exit code.
BrowserExit ==
    /\ pc = "wait" /\ proc = "running"
    /\ \E rc \in ExitCodes : returncode' = rc
    /\ proc' = "exited"
    /\ pc' = "handle"
    /\ UNCHANGED <<args, inputExists, mdText, cssExists, html, written, renderer,
                   locatorCalls, chrome, tmpdir, pdfOutcome, exitStatus, error, log,
                   hostVars, locResult, titleResult, initVars>>

\* write_pdf, lines 267-277: check=True and the except clause.
HandleExit ==
    /\ pc = "handle"
    /\ LET verdict == ExitPolicy(returncode)
       IN  CASE verdict = "ok"   -> /\ log' = Append(log, "info: Wrote pdf")
                                    /\ UNCHANGED error
             [] verdict = "warn" -> /\ log' = Append(log, "warning: Chrome died with SIGABRT")
                                    /\ UNCHANGED error
             [] OTHER            -> /\ error' = "CalledProcessError"
                                    /\ UNCHANGED log
    /\ pc' = "finally"
    /\ UNCHANGED <<args, inputExists, mdText, cssExists, html, written, renderer,
                   locatorCalls, chrome, tmpdir, proc, returncode, pdfOutcome, exitStatus,
                   hostVars, locResult, titleResult, initVars>>

\* write_pdf, lines 278-281: shutil.rmtree(tmpdir, ignore_errors=True) removes
\* the workspace or leaves it (the browser may have put a file there that
\* this process may not delete), then the call returns or the exception in
\* flight goes on to end main().
Cleanup ==
    /\ pc = "finally"
    /\ IF CleanupRuns(error)
       THEN \E removed \in BOOLEAN :
              IF removed
              THEN tmpdir' = "removed" /\ UNCHANGED log
              ELSE /\ tmpdir' = "undeletable"
                   /\ log' = Append(log, "debug: Could not delete tmpdir")
       ELSE UNCHANGED <<tmpdir, log>>
    /\ pc' = "done"
    /\ pdfOutcome' = IF error = NoError THEN "returned" ELSE "raised"
    /\ exitStatus' = IF error = NoError THEN ExitOk ELSE ExitError
    /\ UNCHANGED <<args, inputExists, mdText, cssExists, html, written, renderer,
                   locatorCalls, chrome, proc, returncode, error, hostVars, locResult,
                   titleResult, initVars>>

BuildNext ==
    \/ Compile
    \/ HtmlStep
    \/ SkipPdf
    \/ WeasyPdf
    \/ ResolveBrowser
    \/ Mkdtemp
    \/ Launch
    \/ BrowserExit
    \/ HandleExit
    \/ Cleanup

SpecBuild == BuildInit /\ [][BuildNext]_vars

(***************************************************************************)
(* Properties of the locator, of title extraction and of `init`            *)
(***************************************************************************)
\* C3: guess_browser_path returns the first path of the platform's ordered
\* candidate list that exists on disk; with exactly one existing candidate it
\* returns that path wherever it stands in the list; with none it returns no
\* path and raises the no-browser ValueError.
C3_FirstExistingWins ==
    locResult # NotRun =>
        LET g    == Guesses(platform, winEnvSet, usersListing, disk)
            hits == {i \in 1..Len(g) : g[i] \in disk}
        IN  /\ hits = {} => locResult = NoBrowser
            /\ hits # {} =>
                 /\ locResult.status = "found"
                 /\ \E i \in hits : /\ locResult.path = g[i]
                                    /\ \A j \in hits : i <= j
            /\ \A p \in disk : (Range(g) \cap disk = {p}) => locResult = Found(p)

\* C3 witness: two candidates exist and the scan has returned one of them;
\* on WSL the one found came out of a wildcard expansion.
C3_Witness ==
    /\ locResult.status = "found"
    /\ platform = "wsl"
    /\ Cardinality(disk \cap Range(Guesses(platform, winEnvSet, usersListing, disk))) = 2
    /\ \E u \in Users : locResult.path = "/mnt/c/Users/" \o u
                           \o "/AppData/Local/Microsoft/Edge/Application/msedge.exe"

LineStarts(md) == {p \in 1..Len(md) : p = 1 \/ md[p - 1] = "\n"}

HeadingAt(md, p) ==
    /\ p \in LineStarts(md)
    /\ md[p] = "#"
    /\ p + 1 <= Len(md)
    /\ md[p + 1] \notin {"#", "\n"}

\* the last position of the line that starts at p
LineEnd(md, p) ==
    CHOOSE q \in (p - 1)..Len(md) :
        /\ \A k \in p..q : md[k] # "\n"
        /\ q = Len(md) \/ md[q + 1] = "\n"

\* t is s without its leading and trailing blanks
IsTrimOf(t, s) ==
    \E a \in 0..Len(s) : \E b \in 0..Len(s) :
        /\ a + b <= Len(s)
        /\ t = SubSeq(s, a + 1, Len(s) - b)
        /\ \A k \in 1..a : s[k] \in Whitespace
        /\ \A k \in (Len(s) - b + 1)..Len(s) : s[k] \in Whitespace
        /\ t # <<>> => t[1] \notin Whitespace /\ t[Len(t)] \notin Whitespace

\* C7: title(md) returns the text of the first line, wherever it stands, that
\* starts with one '#' followed by a character other than '#', without that
\* '#' and without surrounding whitespace; a text with no such line raises
\* ValueError.
C7_TitleIsFirstH1 ==
    titleResult # TitleNotRun =>
        LET heads == {p \in 1..Len(mdText) : HeadingAt(mdText, p)}
        IN  /\ heads = {} => titleResult = TitleError
            /\ heads # {} =>
                 LET p == CHOOSE h \in heads : \A k \in heads : h <= k
                 IN  /\ titleResult.status = "ok"
                     /\ IsTrimOf(titleResult.text,
                                 SubSeq(mdText, p + 1, LineEnd(mdText, p)))

\* C7 witness: the heading is the second line and its text comes back trimmed.
C7_Witness ==
    /\ mdText = << "T", "\n", "#", " ", "T" >>
    /\ titleResult = TitleOk(<< "T" >>)

\* C4: a run of init leaves every file that existed as it was, writes a file
\* only where none was and then from the template, carries on with the other
\* file after a skip, and so every later run leaves the files as the first
\* run of init_resume left them.
C4_InitNeverOverwrites ==
    initRuns >= 1 =>
        /\ \A f \in FilePaths :
             /\ filesBefore[f] # NoFile => files[f] = filesBefore[f]
             /\ f \in lastWritten => filesBefore[f] = NoFile /\ files[f] = Template(f[2])
             /\ f \notin lastWritten => files[f] = filesBefore[f]
        /\ initStatus = ExitOk =>
             \A n \in Range(TemplateNames) : files[<<".", n>>] # NoFile
        /\ firstRun.ran => files = firstRun.files

\* C4 witness: after a second run the user's resume.md is still the user's,
\* beside a resume.css that init wrote in an earlier run.
C4_Witness ==
    /\ initRuns >= 2
    /\ initStatus = ExitOk
    /\ lastWritten = {}
    /\ firstRun.ran
    /\ files[<<".", "resume.md">>] = "user text"
    /\ files[<<".", "resume.css">>] = Template("resume.css")
    /\ filesBefore[<<".", "resume.css">>] = Template("resume.css")

\* C5: `init D` writes the two template files into D: after the run
\* D/resume.md and D/resume.css exist, the files written are files of D, and
\* each of the two that was missing has been written.
C5_InitWritesIntoGivenDirectory ==
    (initRuns >= 1 /\ initArgv # NoArg) =>
        /\ \A f \in lastWritten : f[1] = initArgv
        /\ \A n \in Range(TemplateNames) :
             /\ files[<<initArgv, n>>] # NoFile
             /\ filesBefore[<<initArgv, n>>] = NoFile => <<initArgv, n>> \in lastWritten

(***************************************************************************)
(* Properties of `build` and of write_pdf                                  *)
(***************************************************************************)
HasHeading(md) == \E p \in 1..Len(md) : HeadingAt(md, p)

Attempted == {"removed", "undeletable"}

\* C1 as claimed: once a write_pdf call that created a workspace has returned
\* or raised, the workspace is removed, and it is removed only after the
\* browser subprocess has exited or failed to start.
C1_WorkspaceRemovedOnEveryExit ==
    /\ (pc = "done" /\ tmpdir # "none") => tmpdir = "removed"
    /\ tmpdir = "removed" => proc \in {"exited", "nolaunch"}

\* C1 amended: on every exit path of a write_pdf call that created a
\* workspace (exit 0, exit -6, another exit code, no launch) the removal of
\* the workspace has been attempted when the call returns or raises, and
\* only after the subprocess has exited or failed to start; a removal that
\* fails is logged and changes nothing of the call's outcome; a browser that
\* exits with -6 leaves the call reporting success with the removal attempted.
C1_RemovalAttemptedOnEveryExit ==
    /\ (pc = "done" /\ tmpdir # "none") => tmpdir \in Attempted
    /\ tmpdir \in Attempted => /\ proc \in {"exited", "nolaunch"}
                               /\ pc = "done"
                               /\ pdfOutcome \in {"returned", "raised"}
    /\ tmpdir = "undeletable" =>
         /\ log[Len(log)] = "debug: Could not delete tmpdir"
         /\ pdfOutcome = "returned" <=> (proc = "exited" /\ returncode \in {0, -6})
    /\ tmpdir = "removed" =>
         (pdfOutcome = "returned" <=> (proc = "exited" /\ returncode \in {0, -6}))
    /\ (pc = "done" /\ proc = "exited" /\ returncode = -6) =>
         /\ pdfOutcome = "returned" /\ exitStatus = ExitOk
         /\ tmpdir \in Attempted

\* C1 witness: the browser ended with -6, the call returned and the workspace
\* is gone.
C1_Witness ==
    /\ pc = "done" /\ proc = "exited" /\ returncode = -6
    /\ pdfOutcome = "returned" /\ tmpdir = "removed"

\* C2: exit code 0 makes write_pdf return; exit code -6 makes it return too,
\* with a warning, and build ends as a success; every other exit code makes
\* it raise CalledProcessError, which ends the process with a non-zero status.
C2_ExitCodePolicy ==
    (pc = "done" /\ proc = "exited") =>
        /\ returncode = 0 =>
             /\ pdfOutcome = "returned" /\ error = NoError /\ exitStatus = ExitOk
             /\ \E i \in 1..Len(log) : log[i] = "info: Wrote pdf"
        /\ returncode = -6 =>
             /\ pdfOutcome = "returned" /\ error = NoError /\ exitStatus = ExitOk
             /\ \E i \in 1..Len(log) : log[i] = "warning: Chrome died with SIGABRT"
        /\ returncode \notin {0, -6} =>
             /\ pdfOutcome = "raised" /\ error = "CalledProcessError"
             /\ exitStatus = ExitError

\* C2 witness: a browser killed by another signal ends the run with an error.
C2_Witness ==
    /\ pc = "done" /\ proc = "exited" /\ returncode = -9
    /\ pdfOutcome = "raised" /\ exitStatus = ExitError

\* the characters of p after its last "/"
LastComponent(p) == SubSeq(p, rfind(p, "/") + 1, Len(p))

\* a file name has an extension when a dot follows a character that is no dot
HasExtension(name) ==
    \E k \in 2..Len(name) : name[k] = "." /\ \E j \in 1..(k - 1) : name[j] # "."

\* stem is the absolute path of file without its extension
IsStemOf(stem, file) ==
    LET a == abspath(file)
    IN  /\ stem # <<>> /\ stem[1] = "/"
        /\ \E n \in 1..Len(a) :
             LET ext == SubSeq(a, n + 1, Len(a))
             IN  /\ stem = SubSeq(a, 1, n)
                 /\ (ext = <<>>) <=> ~HasExtension(LastComponent(a))
                 /\ ext # <<>> => /\ ext[1] = "."
                                  /\ \A k \in 2..Len(ext) : ext[k] \notin {".", "/"}

\* C6: on a valid input, build writes <prefix>.html exactly when --no-html is
\* absent and invokes a PDF renderer exactly when --no-pdf is absent, <prefix>
\* being the absolute path of the input without its extension; with --no-pdf
\* nothing but the .html file is produced.
C6_OutputsFollowFlags ==
    (inputExists /\ HasHeading(mdText) /\ pc \notin {"main", "html"}) =>
        /\ args.no_html => written = {}
        /\ ~args.no_html =>
             \E stem \in {SubSeq(h, 1, Len(h) - Len(DotHtml)) : h \in written} :
                 /\ written = {stem \o DotHtml}
                 /\ IsStemOf(stem, args.file)
        /\ renderer # "none" => ~args.no_pdf
        /\ (pc # "pdf" /\ ~args.no_pdf) => renderer \in {"browser", "weasy"}
        /\ args.no_pdf =>
             /\ renderer = "none" /\ tmpdir = "none" /\ proc = "none"
             /\ pc = "done" => exitStatus = ExitOk

\* C6 witness: `build r.x.md --no-pdf` has ended with /w/r.x.html alone.
C6_Witness ==
    /\ pc = "done" /\ args.no_pdf /\ ~args.no_html
    /\ args.file = << "r", ".", "x", ".", "m", "d" >>
    /\ written = {<< "/", "w", "/", "r", ".", "x", ".", "h", "t", "m", "l" >>}
    /\ renderer = "none"

\* C8: the locator is called only once the browser-backed renderer has been
\* selected and only when no browser path was given (None or empty); a given
\* path is the executable launched and the locator is not called; with
\* --no-pdf or --weasy the locator is not called and no browser is launched.
C8_LocatorIsLazy ==
    /\ locatorCalls > 0 =>
         /\ renderer = "browser" /\ ~args.no_pdf /\ ~args.weasy
         /\ args.chrome_path \in {NoPath, ""}
         /\ locatorCalls = 1
    /\ pc \in {"main", "html", "pdf"} => locatorCalls = 0
    /\ args.chrome_path \notin {NoPath, ""} =>
         /\ locatorCalls = 0 /\ locResult = NotRun
         /\ proc # "none" => chrome = args.chrome_path
    /\ (args.no_pdf \/ args.weasy) =>
         /\ locatorCalls = 0 /\ proc = "none" /\ tmpdir = "none"
    /\ (renderer = "browser" /\ args.chrome_path \in {NoPath, ""}) => locatorCalls = 1

\* C8 witness: the browser given with --chrome-path is running and the
\* locator was never called, on a host where it would have found another.
C8_Witness ==
    /\ proc = "running" /\ chrome = "/opt/chrome" /\ args.chrome_path = "/opt/chrome"
    /\ locatorCalls = 0 /\ disk # {}

\* C9 as claimed: whenever <prefix>.css does not exist, make_html succeeds with
\* an empty stylesheet and the build goes on.
C9_MissingCssAlwaysCompiles ==
    (inputExists /\ ~cssExists /\ pc # "main") =>
        /\ html # NoHtml /\ html.css = ""
        /\ error \notin {"FileNotFoundError", "ValueError"}

\* C9 amended: a missing <prefix>.css never raises: whenever it does not exist
\* and the Markdown has a title line, make_html succeeds with an empty
\* stylesheet and the build goes on to its output steps; make_html fails
\* there only for want of a title line.
C9_MissingCssRecovered ==
    (inputExists /\ ~cssExists /\ pc # "main") =>
        /\ log[1] = "print: css not found"
        /\ error # "FileNotFoundError"
        /\ HasHeading(mdText) =>
             /\ html # NoHtml /\ html.status = "ok" /\ html.css = ""
             /\ error # "ValueError"
             /\ (~args.no_html /\ pc # "html") => written # {}
             /\ (~args.no_pdf /\ pc = "done") => renderer # "none"
        /\ ~HasHeading(mdText) => error = "ValueError" /\ html = NoHtml

\* C9 witness: a build without stylesheet has ended well, its .html written
\* with an empty style block.
C9_Witness ==
    /\ pc = "done" /\ inputExists /\ ~cssExists /\ exitStatus = ExitOk
    /\ html # NoHtml /\ html.css = "" /\ written # {}

\* C10: an input without a title line ends the build before any output step:
\* no .html is written, no workspace is created, the locator is not called
\* and no renderer or browser is started, whatever the flags.
C10_NoOutputOnInputError ==
    (inputExists /\ ~HasHeading(mdText)) =>
        /\ written = {} /\ html = NoHtml
        /\ tmpdir = "none" /\ locatorCalls = 0 /\ renderer = "none" /\ proc = "none"
        /\ pdfOutcome = "none"
        /\ pc \in {"main", "done"}
        /\ pc = "done" => error = "ValueError" /\ exitStatus = ExitError

\* C10 witness: a build with every output asked for has ended on the input
\* error.
C10_Witness ==
    /\ pc = "done" /\ inputExists /\ mdText = Untitled
    /\ ~args.no_html /\ ~args.no_pdf /\ ~args.weasy /\ args.chrome_path = "/opt/chrome"
    /\ error = "ValueError" /\ exitStatus = ExitError /\ written = {}

====
